---- MODULE Spec2Model ----
(***************************************************************************)
(* Process supervisor of utils/deployment_helper.py: the registry          *)
(* running_processes, start_project, stop_project and restart_project as   *)
(* coroutines of one asyncio event loop, the child processes they manage   *)
(* and the execution info they write through                               *)
(* update_project_execution_info.                                          *)
(*                                                                         *)
(* A coroutine runs without interruption from one await to the next, so    *)
(* every action below is the code between two awaits.  process.wait        *)
(* (timeout=5) is a blocking call, not an await: while a caller sits in    *)
(* it no other coroutine of the loop runs.                                 *)
(*                                                                         *)
(* A Popen object is modelled by value, in the variable that holds it: the *)
(* registry entry, or the local `process` of the stop_project call that    *)
(* popped it.  A process that is still running when the last reference to  *)
(* its Popen object goes away runs on unmanaged (orphans).                 *)
(*                                                                         *)
(* get_project_status and get_project_usage have no await: each is one     *)
(* step, and changes nothing but what its caller holds (QuerySpec).  The   *)
(* log file is kept as empty or not; a command line as the sequence of its *)
(* characters (CmdSpec draws the configured run_command).                  *)
(***************************************************************************)
EXTENDS Naturals, FiniteSets, Sequences, TLC

\* ------------------------------------------------------------------ bounds
Projects == {"P"}
Callers == {"a", "b"}
MaxPid == 2             \* size of the OS's PID space
MaxCmdLen == 5          \* longest configured run_command, in characters

\* ------------------------------------------------------- program constants
GracePeriod == 5        \* process.wait(timeout=5)
SettleDelay == 1        \* asyncio.sleep(1)

Pids == 1 .. MaxPid
NoPid == 0              \* 'pid': None

StartResults == {"already_running", "env_missing", "exec_failed", "started"}
StopResults == {"not_running", "already_stopped", "stopped", "stop_failed"}

VARIABLES
    running_processes,  \* project -> registered Popen object (NoHandle: no key)
    orphans,            \* running children no Popen object refers to any more
    persisted,          \* project -> execution_info kept by the database
    pc,                 \* caller -> where its coroutine stands
    op,                 \* caller -> the operation it called
    proj,               \* caller -> project_id argument
    venv,               \* caller -> does <project path>/.venv/bin/python exist
    result,             \* caller -> what its last stop_project/start_project returned
    stopped,            \* caller -> local `process` of stop_project (popped object)
    update_pid,         \* caller -> update_data['pid'] of start_project
    waited,             \* time the caller blocked in process.wait has waited
    slept,              \* caller -> time spent in asyncio.sleep
    okStart,            \* project -> "yes": the registered object comes from a
                        \*   start_project that returned success, and no stop_project
                        \*   of the project was called since; a caller: from its
                        \*   start_project, which has not returned yet; else "no"
    raced,              \* the callers whose start_project calls were issued together
    log,                \* project -> content of the file execution_info['log_file']
    run_command,        \* project -> the 'run_command' of its project dict
    stops_together      \* the callers whose stop_project calls (restart_project's
                        \*   included) were issued together on a live entry

vars == <<running_processes, orphans, persisted, pc, op, proj, venv, result,
          stopped, update_pid, waited, slept, okStart, raced, log, run_command, stops_together>>

NoHandle ==
    [state |-> "none", pid |-> NoPid, termSent |-> FALSE, killSent |-> FALSE, args |-> <<>>]

\* A string is the sequence of its characters.
CmdChars == {" ", "\t", "a", "b"}
Commands == UNION {[1 .. n -> CmdChars] : n \in 0 .. MaxCmdLen}

\* project dict without the key 'run_command'
NotConfigured == [configured |-> FALSE, text |-> <<>>]

NoInfo == [is_running |-> FALSE, pid |-> NoPid, status |-> "stopped", last_run_time |-> "Never"]

AnyProject == CHOOSE p \in Projects : TRUE

Init ==
    /\ running_processes = [p \in Projects |-> NoHandle]
    /\ orphans = {}
    /\ persisted = [p \in Projects |-> NoInfo]
    /\ pc = [c \in Callers |-> "idle"]
    /\ op = [c \in Callers |-> "none"]
    /\ proj = [c \in Callers |-> AnyProject]
    /\ venv = [c \in Callers |-> TRUE]
    /\ result = [c \in Callers |-> "none"]
    /\ stopped = [c \in Callers |-> NoHandle]
    /\ update_pid = [c \in Callers |-> NoPid]
    /\ waited = 0
    /\ slept = [c \in Callers |-> 0]
    /\ okStart = [p \in Projects |-> "no"]
    /\ raced = {}
    /\ log = [p \in Projects |-> "empty"]
    /\ run_command = [p \in Projects |-> NotConfigured]
    /\ stops_together = {}

\* ------------------------------------------------------------ OS processes

\* process.poll() is None
Alive(h) == h.state = "running"

\* The children of project p that run, whoever holds them.
LiveChildren(p) ==
    {<<"registry", q>> : q \in {r \in {p} : Alive(running_processes[r])}}
        \cup {<<"stopping", c>> : c \in {d \in Callers : proj[d] = p /\ Alive(stopped[d])}}
        \cup {<<"orphan", o>> : o \in {x \in orphans : x.proj = p}}

AllLiveChildren == UNION {LiveChildren(p) : p \in Projects}

PidOf(x) ==
    IF x[1] = "registry" THEN running_processes[x[2]].pid
    ELSE IF x[1] = "stopping" THEN stopped[x[2]].pid
    ELSE x[2].pid

\* The PIDs the OS can hand to a new process: those of no running process.
FreePids == Pids \ {PidOf(x) : x \in AllLiveChildren}

Min(a, b) == IF a < b THEN a ELSE b

\* The last reference to Popen object h of project p goes away.
Dropped(h, p) == IF Alive(h) THEN {[proj |-> p, pid |-> h.pid]} ELSE {}

\* The event loop is free unless a coroutine blocks it in process.wait.
LoopFree == \A c \in Callers : pc[c] # "stop_wait"

\* A child exits on its own (finishes, crashes, or obeys SIGTERM).
ChildExit(x) ==
    /\ running_processes' =
          IF x[1] = "registry"
          THEN [running_processes EXCEPT ![x[2]].state = "exited"]
          ELSE running_processes
    /\ stopped' =
          IF x[1] = "stopping" THEN [stopped EXCEPT ![x[2]].state = "exited"] ELSE stopped
    /\ orphans' = IF x[1] = "orphan" THEN orphans \ {x[2]} ELSE orphans
    /\ UNCHANGED <<persisted, pc, op, proj, venv, result, update_pid, waited, slept,
                   okStart, raced, log, run_command, stops_together>>

\* A running child of project p writes to its stdout or stderr, both redirected
\* to the project's log file.
ChildWrite(p) ==
    /\ LiveChildren(p) # {}
    /\ log[p] = "empty"
    /\ log' = [log EXCEPT ![p] = "output"]
    /\ UNCHANGED <<running_processes, orphans, persisted, pc, op, proj, venv, result,
                   stopped, update_pid, waited, slept, okStart, raced, run_command, stops_together>>

\* One unit of time passes.
Tick ==
    /\ waited' = IF LoopFree THEN waited ELSE Min(waited + 1, GracePeriod)
    /\ slept' = [c \in Callers |->
                    IF pc[c] = "sleep" THEN Min(slept[c] + 1, SettleDelay) ELSE slept[c]]
    /\ UNCHANGED <<running_processes, orphans, persisted, pc, op, proj, venv, result,
                   stopped, update_pid, okStart, raced, log, run_command, stops_together>>

\* ------------------------------------------------------------------ calls

\* The callers whose start_project(p) with a provisioned environment is issued
\* and has not run yet.
RacingWith(c, p) ==
    {d \in Callers \ {c} : pc[d] = "start" /\ proj[d] = p /\ venv[d]}

\* The callers whose stop_project(p) is issued and has not run yet.
StoppingWith(c, p) == {d \in Callers \ {c} : pc[d] = "stop" /\ proj[d] = p}

\* A caller calls start_project, stop_project or restart_project; v tells whether
\* the project dict it passes has its .venv/bin/python (stop_project takes none).
Invoke(c, o, p, v) ==
    /\ pc[c] = "idle"
    /\ LoopFree
    /\ o = "stop" => v
    /\ op' = [op EXCEPT ![c] = o]
    /\ proj' = [proj EXCEPT ![c] = p]
    /\ venv' = [venv EXCEPT ![c] = v]
    /\ pc' = [pc EXCEPT ![c] = IF o = "start" THEN "start" ELSE "stop"]
    /\ result' = [result EXCEPT ![c] = "none"]
    /\ raced' = IF o = "start" /\ v /\ running_processes[p] = NoHandle
                   /\ RacingWith(c, p) # {}
                THEN {c} \cup RacingWith(c, p)
                ELSE {}
    /\ stops_together' = IF o # "start" /\ Alive(running_processes[p])
                            /\ StoppingWith(c, p) # {}
                         THEN {c} \cup StoppingWith(c, p)
                         ELSE {}
    /\ UNCHANGED <<running_processes, orphans, persisted, stopped, update_pid, waited,
                   slept, okStart, log, run_command>>

\* The operation returns r to its caller; its local variables are gone.
Return(c, r) ==
    /\ result' = [result EXCEPT ![c] = r]
    /\ pc' = [pc EXCEPT ![c] = "idle"]
    /\ op' = [op EXCEPT ![c] = "none"]
    /\ proj' = [proj EXCEPT ![c] = AnyProject]
    /\ venv' = [venv EXCEPT ![c] = TRUE]
    /\ stopped' = [stopped EXCEPT ![c] = NoHandle]
    /\ update_pid' = [update_pid EXCEPT ![c] = NoPid]
    /\ slept' = [slept EXCEPT ![c] = 0]

\* ---------------------------------------------------------- start_project

\* Mutant: the liveness test inverted (poll() is not None).
AlreadyRunning_Inverted(p) ==
    running_processes[p] # NoHandle /\ ~Alive(running_processes[p])

\* Mutant: the first check of start_project left out.
AlreadyRunning_Never(p) == FALSE

\* project_id in running_processes and running_processes[project_id].poll() is None
AlreadyRunning(p) == Alive(running_processes[p])

\* Mutant: the marker is not looked for.
EnvironmentMissing_Never(c) == FALSE

\* not os.path.exists(venv_python)
EnvironmentMissing(c) == ~venv[c]

\* the second argument of project.get("run_command", "python main.py")
DefaultCommand == <<"p", "y", "t", "h", "o", "n", " ", "m", "a", "i", "n", ".", "p", "y">>

\* project.get("run_command", "python main.py")
ConfiguredCommand(p) ==
    IF run_command[p].configured THEN run_command[p].text ELSE DefaultCommand

\* str.isspace of one character
IsSpace(ch) == ch \in {" ", "\t", "\n"}

\* str.split(): the scan at position i of s, cur the word under way, out the
\* words found
RECURSIVE SplitFrom(_, _, _, _)
SplitFrom(s, i, cur, out) ==
    LET closed == IF cur = <<>> THEN out ELSE Append(out, cur)
    IN  IF i > Len(s) THEN closed
        ELSE IF IsSpace(s[i]) THEN SplitFrom(s, i + 1, <<>>, closed)
        ELSE SplitFrom(s, i + 1, Append(cur, s[i]), out)

Split(s) == SplitFrom(s, 1, <<>>, <<>>)

\* list[1:]
FromSecond(list) == IF Len(list) <= 1 THEN <<>> ELSE SubSeq(list, 2, Len(list))

\* os.path.join(project_path, ".venv", "bin", "python")
venv_python == <<".venv/bin/python">>

\* Mutant: the first token of the command kept.
RunCmd_KeepFirst(p) == <<venv_python>> \o Split(ConfiguredCommand(p))

\* run_cmd = [venv_python] + run_command[1:]
RunCmd(p) == <<venv_python>> \o FromSecond(Split(ConfiguredCommand(p)))

\* the log files after open(project['execution_info']['log_file'], 'w')
Truncated(p) == [log EXCEPT ![p] = "empty"]

\* open(log_file, 'w') and subprocess.Popen(...) succeeded;
\* running_processes[project_id] = process
SpawnAndRegister(c, pid) ==
    LET p == proj[c]
    IN  /\ running_processes' = [running_processes EXCEPT ![p] =
              [state |-> "running", pid |-> pid, termSent |-> FALSE, killSent |-> FALSE,
               args |-> RunCmd(p)]]
        /\ orphans' = orphans \cup Dropped(running_processes[p], p)
        /\ update_pid' = [update_pid EXCEPT ![c] = pid]
        /\ okStart' = [okStart EXCEPT ![p] = c]
        /\ pc' = [pc EXCEPT ![c] = "start_await"]
        /\ log' = Truncated(p)
        /\ UNCHANGED <<op, proj, venv, result, stopped, slept>>

\* start_project from its first line to its await (or to an early return);
\* the local `process` of a restart_project's stop_project is gone by now
StartBody(c) ==
    LET p == proj[c]
    IN  /\ UNCHANGED <<persisted, waited, raced, run_command, stops_together>>
        /\ IF AlreadyRunning(p)
           THEN /\ Return(c, "already_running")
                /\ UNCHANGED <<running_processes, okStart, log, run_command, stops_together>>
                /\ orphans' = orphans \cup Dropped(stopped[c], p)
           ELSE IF EnvironmentMissing(c)
           THEN /\ Return(c, "env_missing")
                /\ UNCHANGED <<running_processes, okStart, log, run_command, stops_together>>
                /\ orphans' = orphans \cup Dropped(stopped[c], p)
           ELSE \/ /\ Return(c, "exec_failed")         \* project[...] or open() raised
                   /\ UNCHANGED <<running_processes, okStart, log, run_command, stops_together>>
                   /\ orphans' = orphans \cup Dropped(stopped[c], p)
                \/ /\ Return(c, "exec_failed")         \* Popen() raised, log_file open
                   /\ UNCHANGED <<running_processes, okStart>>
                   /\ log' = Truncated(p)
                   /\ orphans' = orphans \cup Dropped(stopped[c], p)
                \/ \E pid \in FreePids : SpawnAndRegister(c, pid)

StartCall(c) ==
    /\ pc[c] = "start"
    /\ LoopFree
    /\ StartBody(c)

\* await update_project_execution_info(project_id, update_data) and what follows
StartAwait(c, ok) ==
    LET p == proj[c]
    IN  /\ pc[c] = "start_await"
        /\ LoopFree
        /\ UNCHANGED <<running_processes, waited, raced, log, run_command, stops_together>>
        /\ orphans' = orphans \cup Dropped(stopped[c], p)
        /\ IF ok
           THEN /\ persisted' = [persisted EXCEPT ![p] =
                       [is_running |-> TRUE, pid |-> update_pid[c],
                        status |-> "running", last_run_time |-> "set"]]
                /\ Return(c, "started")
                /\ okStart' = [okStart EXCEPT ![p] = IF @ = c THEN "yes" ELSE @]
           ELSE /\ Return(c, "exec_failed")            \* except Exception
                /\ okStart' = [okStart EXCEPT ![p] = IF @ = c THEN "no" ELSE @]
                /\ UNCHANGED persisted

\* ----------------------------------------------------------- stop_project

\* return of stop_project: to its caller, or into restart_project's sleep
StopReturn(c, r) ==
    IF op[c] = "restart"
    THEN /\ result' = [result EXCEPT ![c] = r]
         /\ pc' = [pc EXCEPT ![c] = "sleep"]
         /\ slept' = [slept EXCEPT ![c] = 0]
         /\ UNCHANGED <<op, proj, venv, stopped, update_pid, orphans>>
    ELSE /\ Return(c, r)
         /\ orphans' = orphans \cup Dropped(stopped[c], proj[c])

\* Mutant: running_processes[project_id] read, not popped.
Popped_Keep(p) == running_processes

\* the registry after running_processes.pop(project_id)
Popped(p) == [running_processes EXCEPT ![p] = NoHandle]

\* stop_project from its first line to process.wait (or to an early return)
StopBody(c) ==
    LET p == proj[c]
        process == running_processes[p]
    IN  /\ UNCHANGED <<persisted, waited, raced, log, run_command, stops_together>>
        /\ IF process = NoHandle
           THEN /\ StopReturn(c, "not_running")
                /\ UNCHANGED <<running_processes, okStart>>
           ELSE /\ running_processes' = Popped(p)
                /\ okStart' = [okStart EXCEPT ![p] = "no"]
                /\ IF ~Alive(process)
                   THEN StopReturn(c, "already_stopped")
                   ELSE /\ stopped' = [stopped EXCEPT ![c] =       \* process.terminate()
                                          [process EXCEPT !.termSent = TRUE]]
                        /\ pc' = [pc EXCEPT ![c] = "stop_wait"]
                        /\ UNCHANGED <<op, proj, venv, result, update_pid, slept, orphans>>

StopCall(c) ==
    /\ pc[c] = "stop"
    /\ LoopFree
    /\ StopBody(c)

\* Mutant: TimeoutExpired swallowed, process.kill() left out.
StopWait_NoKill(c) ==
    /\ pc[c] = "stop_wait"
    /\ pc' = [pc EXCEPT ![c] = "stop_await"]
    /\ waited' = 0
    /\ Alive(stopped[c]) => waited = GracePeriod
    /\ UNCHANGED <<running_processes, orphans, persisted, op, proj, venv, result,
                   stopped, update_pid, slept, okStart, raced, log, run_command, stops_together>>

\* Mutant: process.kill() without waiting out the grace period.
StopWait_KillAtOnce(c) ==
    /\ pc[c] = "stop_wait"
    /\ pc' = [pc EXCEPT ![c] = "stop_await"]
    /\ waited' = 0
    /\ IF Alive(stopped[c])
       THEN stopped' = [stopped EXCEPT ![c].state = "exited", ![c].killSent = TRUE]
       ELSE UNCHANGED stopped
    /\ UNCHANGED <<running_processes, orphans, persisted, op, proj, venv, result,
                   update_pid, slept, okStart, raced, log, run_command, stops_together>>

\* process.wait(timeout=5) ends: the child exited, or TimeoutExpired and process.kill()
StopWait(c) ==
    /\ pc[c] = "stop_wait"
    /\ pc' = [pc EXCEPT ![c] = "stop_await"]
    /\ waited' = 0
    /\ IF Alive(stopped[c])
       THEN /\ waited = GracePeriod
            /\ stopped' = [stopped EXCEPT ![c].state = "exited", ![c].killSent = TRUE]
       ELSE UNCHANGED stopped
    /\ UNCHANGED <<running_processes, orphans, persisted, op, proj, venv, result,
                   update_pid, slept, okStart, raced, log, run_command, stops_together>>

\* Mutant: the update of stop_project without its 'pid': None.
StopAwait_KeepPid(c, ok) ==
    LET p == proj[c]
    IN  /\ pc[c] = "stop_await"
        /\ LoopFree
        /\ UNCHANGED <<running_processes, waited, okStart, raced, log, run_command, stops_together>>
        /\ IF ok
           THEN /\ persisted' = [persisted EXCEPT ![p] =
                       [@ EXCEPT !.is_running = FALSE, !.status = "stopped"]]
                /\ StopReturn(c, "stopped")
           ELSE /\ StopReturn(c, "stop_failed")
                /\ UNCHANGED persisted

\* await update_project_execution_info(project_id, {...}) and what follows
StopAwait(c, ok) ==
    LET p == proj[c]
    IN  /\ pc[c] = "stop_await"
        /\ LoopFree
        /\ UNCHANGED <<running_processes, waited, okStart, raced, log, run_command, stops_together>>
        /\ IF ok
           THEN /\ persisted' = [persisted EXCEPT ![p] =
                       [@ EXCEPT !.is_running = FALSE, !.pid = NoPid, !.status = "stopped"]]
                /\ StopReturn(c, "stopped")
           ELSE /\ StopReturn(c, "stop_failed")        \* except Exception
                /\ UNCHANGED persisted

\* -------------------------------------------------------- restart_project

\* Mutant: no settle delay between stop_project and start_project.
SleepOver_AtOnce(c) == TRUE

\* await asyncio.sleep(1) may resume
SleepOver(c) == slept[c] >= SettleDelay

\* asyncio.sleep(1) is over: return await start_project(project_id, project)
RestartWake(c) ==
    /\ pc[c] = "sleep"
    /\ SleepOver(c)
    /\ LoopFree
    /\ StartBody(c)

\* ------------------------------------------- get_project_status, get_project_usage

\* The project dicts a caller may pass: which of the keys read are present.
ProjectDicts == [execution_info : BOOLEAN, name : BOOLEAN]

StatusResults == {"status_running", "status_stopped", "status_raised",
                  "report_running", "report_stopped", "report_raised"}
UsageResults == {"usage_not_running", "usage_stopped", "usage_sample", "usage_unavailable"}

\* A project_id that no start_project is called with.
OtherProject == "Q"

\* running_processes[p] if p in running_processes
Entry(p) == IF p \in DOMAIN running_processes THEN running_processes[p] ELSE NoHandle

\* A coroutine without an await runs from call to return in one step
\* (r ending in _raised: an exception reaches the caller instead).
QueryReturn(c, p, r) ==
    /\ pc[c] = "idle"
    /\ LoopFree
    /\ proj' = [proj EXCEPT ![c] = p]
    /\ result' = [result EXCEPT ![c] = r]
    /\ UNCHANGED <<running_processes, orphans, persisted, pc, op, venv, stopped,
                   update_pid, waited, slept, okStart, raced, log, run_command, stops_together>>

\* is_running of get_project_status
IsRunning(p) == Alive(Entry(p))

\* What get_project_status(p, project, detailed) gives: the indicator
\* ("status_..."), the detailed text built around it ("report_...", its uptime
\* "N/A" when psutil fails), or the KeyError of project['execution_info'] or
\* project['name'].
StatusOutcome(p, project, detailed) ==
    IF ~project.execution_info
    THEN IF detailed THEN "report_raised" ELSE "status_raised"
    ELSE IF ~detailed
    THEN IF IsRunning(p) THEN "status_running" ELSE "status_stopped"
    ELSE IF ~project.name
    THEN "report_raised"
    ELSE IF IsRunning(p) THEN "report_running" ELSE "report_stopped"

GetStatus(c, p, project, detailed) ==
    QueryReturn(c, p, StatusOutcome(p, project, detailed))

\* Mutant: no poll() before sampling; psutil is asked about an exited child.
UsageOutcomes_NoPoll(p) ==
    IF Entry(p) = NoHandle
    THEN {"usage_not_running"}
    ELSE IF ~Alive(Entry(p))
    THEN {"usage_unavailable"}
    ELSE {"usage_sample", "usage_unavailable"}

\* What get_project_usage(p) can return: "not running", "stopped", the sample, or
\* "could not retrieve usage" when psutil raises (the child may exit during
\* cpu_percent(interval=1)).
UsageOutcomes(p) ==
    IF Entry(p) = NoHandle
    THEN {"usage_not_running"}
    ELSE IF ~Alive(Entry(p))
    THEN {"usage_stopped"}
    ELSE {"usage_sample", "usage_unavailable"}

GetUsage(c, p, r) == r \in UsageOutcomes(p) /\ QueryReturn(c, p, r)

\* ------------------------------------------------------------------- spec

Next ==
    \/ \E c \in Callers, o \in {"start", "stop", "restart"}, p \in Projects, v \in BOOLEAN :
          Invoke(c, o, p, v)
    \/ \E c \in Callers : StartCall(c)
    \/ \E c \in Callers, ok \in BOOLEAN : StartAwait(c, ok)
    \/ \E c \in Callers : StopCall(c)
    \/ \E c \in Callers : StopWait(c)
    \/ \E c \in Callers, ok \in BOOLEAN : StopAwait(c, ok)
    \/ \E c \in Callers : RestartWake(c)
    \/ \E x \in AllLiveChildren : ChildExit(x)
    \/ \E p \in Projects : ChildWrite(p)
    \/ Tick

Spec == Init /\ [][Next]_vars

\* The operations above together with the two queries.
QueryNext ==
    \/ Next
    \/ \E c \in Callers, p \in Projects \cup {OtherProject}, project \in ProjectDicts,
          detailed \in BOOLEAN :
          GetStatus(c, p, project, detailed)
    \/ \E c \in Callers, p \in Projects \cup {OtherProject}, r \in UsageResults :
          GetUsage(c, p, r)

QuerySpec == Init /\ [][QueryNext]_vars

\* One caller starting and stopping a project whose run_command is any string
\* of at most MaxCmdLen characters, or not configured.
CmdInit ==
    \E cmd \in Commands, configured \in BOOLEAN :
        /\ configured \/ cmd = <<>>
        /\ run_command = [p \in Projects |-> [configured |-> configured, text |-> cmd]]
        /\ running_processes = [p \in Projects |-> NoHandle]
        /\ orphans = {}
        /\ persisted = [p \in Projects |-> NoInfo]
        /\ pc = [c \in Callers |-> "idle"]
        /\ op = [c \in Callers |-> "none"]
        /\ proj = [c \in Callers |-> AnyProject]
        /\ venv = [c \in Callers |-> TRUE]
        /\ result = [c \in Callers |-> "none"]
        /\ stopped = [c \in Callers |-> NoHandle]
        /\ update_pid = [c \in Callers |-> NoPid]
        /\ waited = 0
        /\ slept = [c \in Callers |-> 0]
        /\ okStart = [p \in Projects |-> "no"]
        /\ raced = {}
        /\ log = [p \in Projects |-> "empty"]
        /\ stops_together = {}

CmdCaller == CHOOSE c \in Callers : TRUE

CmdNext ==
    \/ \E o \in {"start", "stop"}, p \in Projects : Invoke(CmdCaller, o, p, TRUE)
    \/ StartCall(CmdCaller)
    \/ StartAwait(CmdCaller, TRUE)
    \/ StopCall(CmdCaller)
    \/ StopWait(CmdCaller)
    \/ StopAwait(CmdCaller, TRUE)
    \/ \E x \in AllLiveChildren : ChildExit(x)

CmdSpec == CmdInit /\ [][CmdNext]_vars

\* start_project and stop_project calls in any interleaving, when
\* update_project_execution_info never raises and a child exits only once it
\* has been sent SIGTERM.
CalmNext ==
    \/ \E c \in Callers, o \in {"start", "stop"}, p \in Projects, v \in BOOLEAN :
          Invoke(c, o, p, v)
    \/ \E c \in Callers : StartCall(c)
    \/ \E c \in Callers : StartAwait(c, TRUE)
    \/ \E c \in Callers : StopCall(c)
    \/ \E c \in Callers : StopWait(c)
    \/ \E c \in Callers : StopAwait(c, TRUE)
    \/ \E x \in AllLiveChildren : x[1] = "stopping" /\ ChildExit(x)
    \/ Tick

CalmSpec == Init /\ [][CalmNext]_vars

\* The scheduling the event loop and the database client give: time passes, a
\* blocking wait ends, and a coroutine whose awaited call can complete is resumed.
FairSpec ==
    /\ Spec
    /\ WF_vars(Tick)
    /\ \A c \in Callers :
          /\ WF_vars(StopWait(c))
          /\ SF_vars(StopAwait(c, TRUE) \/ StopAwait(c, FALSE))

TypeOK ==
    /\ \A p \in Projects :
          /\ running_processes[p].state \in {"none", "running", "exited"}
          /\ running_processes[p].pid \in Pids \cup {NoPid}
          /\ persisted[p].pid \in Pids \cup {NoPid}
    /\ pc \in [Callers -> {"idle", "start", "start_await", "stop", "stop_wait",
                           "stop_await", "sleep"}]
    /\ result \in [Callers -> StopResults \cup StartResults \cup StatusResults
                                  \cup UsageResults \cup {"none"}]
    /\ waited \in 0 .. GracePeriod
    /\ log \in [Projects -> {"empty", "output"}]

\* ----------------------------------------------------------------- claims

\* Caller c runs start_project up to its await or its return in this step.
StartStep(c) == pc[c] \in {"start", "sleep"} /\ pc'[c] # pc[c]

\* Caller c runs stop_project up to process.wait or its return in this step.
StopStep(c) == pc[c] = "stop" /\ pc'[c] # "stop"

\* C1: whatever the interleaving of the three operations and of children
\* exiting, at most one child of a project is alive, the registered one included.
C1_AtMostOneLiveChild == \A p \in Projects : Cardinality(LiveChildren(p)) <= 1

C1_Witness ==
    \E c, d \in Callers :
        /\ result[c] = "already_running"
        /\ pc[d] = "start_await"
        /\ Alive(running_processes[proj[d]])

\* C2 (as claimed): of two start_project calls issued together, the one that
\* spawned and registered returns success and the other, running after it,
\* returns "already running".
C2_ExactlyOneSucceeds ==
    [][\A c \in raced :
          /\ (pc[c] = "start_await" /\ pc'[c] = "idle") => result'[c] = "started"
          /\ (StartStep(c) /\ \E d \in raced \ {c} :
                                  pc[d] = "start_await" \/ result[d] = "started")
                => (pc'[c] = "idle" /\ result'[c] = "already_running")]_vars

\* C3 (as claimed): a start_project that follows a successful one, no
\* stop_project in between, returns "already running" and spawns nothing.
C3_SecondStartRejected ==
    [][\A c \in Callers :
          (StartStep(c) /\ okStart[proj[c]] = "yes")
              => /\ pc'[c] = "idle"
                 /\ result'[c] = "already_running"
                 /\ running_processes' = running_processes]_vars

\* C3 (amended): a start_project that follows a successful one, no stop_project
\* in between, while the child of the first is still alive returns "already
\* running" and spawns nothing: one process over the two calls.
C3_SecondStartRejectedWhileAlive ==
    [][\A c \in Callers :
          (StartStep(c) /\ okStart[proj[c]] = "yes" /\ Alive(running_processes[proj[c]]))
              => /\ pc'[c] = "idle"
                 /\ result'[c] = "already_running"
                 /\ running_processes' = running_processes
                 /\ orphans' = orphans]_vars

C3_Witness ==
    \E c, d \in Callers :
        /\ c # d
        /\ result[d] = "started"
        /\ result[c] = "already_running"
        /\ okStart["P"] = "yes"
        /\ Alive(running_processes["P"])

\* C4: no child runs unmanaged: a running child is registered, or is the one a
\* stop_project call is waiting for; once that call has returned it is dead.
C4_NoUnmanagedChild ==
    /\ orphans = {}
    /\ \A c \in Callers : Alive(stopped[c]) => pc[c] = "stop_wait"

C4_Witness ==
    \E c, d \in Callers :
        /\ c # d
        /\ pc[c] = "idle" /\ result[c] = "stop_failed"
        /\ pc[d] = "start_await"

\* C5: stop_project without a registry entry returns "not running" and changes
\* nothing; on a stale entry it returns "already stopped" and removes the entry.
C5_StopWithoutLiveChild ==
    [][\A c \in Callers :
          StopStep(c) =>
              LET p == proj[c]
              IN  /\ running_processes[p] = NoHandle
                        => /\ result'[c] = "not_running"
                           /\ UNCHANGED <<running_processes, orphans, persisted>>
                  /\ (running_processes[p] # NoHandle /\ ~Alive(running_processes[p]))
                        => /\ result'[c] = "already_stopped"
                           /\ running_processes'[p] = NoHandle
                  /\ result'[c] \in {"not_running", "already_stopped"}
                        => pc'[c] = IF op[c] = "restart" THEN "sleep" ELSE "idle"]_vars

C5_Witness ==
    \E c, d \in Callers :
        /\ result[c] = "already_stopped" /\ pc[c] = "idle"
        /\ result[d] = "not_running" /\ pc[d] = "idle"
        /\ running_processes["P"] = NoHandle

\* C6 (as claimed): start_project with the runtime marker missing returns
\* "environment missing" and leaves registry and persistence as they were.
C6_EnvMissingAlways ==
    [][\A c \in Callers :
          (StartStep(c) /\ ~venv[c])
              => /\ pc'[c] = "idle"
                 /\ result'[c] = "env_missing"
                 /\ UNCHANGED <<running_processes, persisted>>]_vars

\* C6 (amended): start_project with the runtime marker missing returns
\* "environment missing", or "already running" when the registry holds a live
\* child (the check made first); either way no process is spawned and registry
\* and persistence are as they were.
C6_EnvMissingUnlessRunning ==
    [][\A c \in Callers :
          (StartStep(c) /\ ~venv[c])
              => /\ pc'[c] = "idle"
                 /\ result'[c] = IF Alive(running_processes[proj[c]])
                                 THEN "already_running" ELSE "env_missing"
                 /\ UNCHANGED <<running_processes, persisted>>
                 /\ AllLiveChildren' = AllLiveChildren]_vars

C6_Witness == \E c \in Callers : pc[c] = "idle" /\ result[c] = "env_missing"

\* C7: stop_project sends SIGTERM first and SIGKILL only to a child still alive
\* after the whole grace period; when the wait is over the child is dead and not
\* registered, and the call returns.
C7_GracefulThenForced ==
    /\ [][\A c \in Callers :
             /\ (StopStep(c) /\ pc'[c] = "stop_wait")
                   => (stopped'[c].termSent /\ ~stopped'[c].killSent)
             /\ (stopped'[c].killSent /\ ~stopped[c].killSent)
                   => (stopped[c].termSent /\ Alive(stopped[c]) /\ waited = GracePeriod)
             /\ (pc[c] = "stop_wait" /\ pc'[c] # "stop_wait")
                   => (~Alive(stopped'[c]) /\ running_processes'[proj[c]] = NoHandle)]_vars
    /\ \A c \in Callers :
          (pc[c] = "stop_wait") ~> (pc[c] \in {"idle", "sleep"} /\ ~Alive(stopped[c]))

C7_Witness ==
    \E c \in Callers : pc[c] = "stop_await" /\ stopped[c].killSent /\ ~Alive(stopped[c])

\* C8 (as claimed): a restart_project whose stop_project failed hard does not
\* go on to spawn a child.
C8_NoStartAfterStopFailure ==
    \A c \in Callers :
        ~(op[c] = "restart" /\ result[c] = "stop_failed" /\ pc[c] = "start_await")

C10_PersistFailureIsSoft ==
    [][\A c \in Callers :
          /\ (pc[c] = "start_await" /\ pc'[c] # "start_await") => result'[c] = "started"
          /\ (pc[c] = "stop_await" /\ pc'[c] # "stop_await") => result'[c] = "stopped"]_vars

\* C11 (as claimed): a start_project or stop_project that returns "already
\* running", "not running", "environment missing" or, before anything was
\* registered, "execution failed" leaves the registry, the persisted execution
\* info and the content of the log file as they were.
C11_HardErrorChangesNothing ==
    [][\A c \in Callers :
          ((StartStep(c) \/ StopStep(c)) /\ pc'[c] \in {"idle", "sleep"}
                /\ result'[c] \in {"already_running", "not_running", "env_missing",
                                   "exec_failed"})
              => UNCHANGED <<running_processes, persisted, log, run_command, stops_together>>]_vars

\* C12: whatever calls have completed or are under way, the persisted execution
\* info of a project has a pid exactly when its is_running is true.
C12_PidIffRunning ==
    \A p \in Projects : (persisted[p].pid # NoPid) <=> persisted[p].is_running

C12_Witness ==
    \E c \in Callers :
        /\ pc[c] = "idle" /\ result[c] = "stopped"
        /\ persisted["P"].last_run_time = "set"
        /\ ~persisted["P"].is_running
        /\ persisted["P"].pid = NoPid

\* Caller c runs get_project_status or get_project_usage, on project proj'[c],
\* in this step.
QueryStep(c) ==
    /\ pc[c] = "idle" /\ pc'[c] = "idle"
    /\ result'[c] # result[c] \/ proj'[c] # proj[c]

\* The registry holds an entry of project p whose child has exited.
Stale(p) == Entry(p) # NoHandle /\ ~Alive(Entry(p))

\* C13 (as claimed): get_project_status reports running exactly when the
\* registry holds an entry whose child is alive, and with detailed=False it
\* returns the indicator whatever persisted data the project dict carries.
C13_StatusFromRegistryAlone ==
    [][\A c \in Callers :
          (QueryStep(c) /\ result'[c] \in StatusResults)
              => /\ result'[c] \in {"status_running", "report_running"}
                       => Alive(Entry(proj'[c]))
                 /\ result'[c] \in {"status_stopped", "report_stopped"}
                       => ~Alive(Entry(proj'[c]))
                 /\ result'[c] # "status_raised"]_vars

\* C14 (as claimed): get_project_usage on an entry whose child has exited
\* returns the outcome of a failed sampling.
C14_StaleIsSampleUnavailable ==
    [][\A c \in Callers :
          (QueryStep(c) /\ result'[c] \in UsageResults /\ Stale(proj'[c]))
              => result'[c] = "usage_unavailable"]_vars

\* C14 (amended): get_project_usage on an entry whose child has exited returns
\* "project is stopped", an outcome of its own: not "not running", not the
\* outcome of a failed sampling, not a sample and not an exception.
C14_StaleIsStopped ==
    [][\A c \in Callers :
          (QueryStep(c) /\ result'[c] \in UsageResults /\ Stale(proj'[c]))
              => result'[c] = "usage_stopped"]_vars

C14_Witness ==
    \E c \in Callers : pc[c] = "idle" /\ result[c] = "usage_stopped" /\ Stale(proj[c])

\* C15 (as claimed): no operation lets an exception reach its caller.
C15_NothingRaised ==
    \A c \in Callers : result[c] \notin {"status_raised", "report_raised"}

\* The words of string s, as the places <<first, last>> of its maximal runs of
\* characters that are not whitespace.
Words(s) ==
    {w \in (1 .. Len(s)) \X (1 .. Len(s)) :
        /\ w[1] <= w[2]
        /\ \A k \in w[1] .. w[2] : ~IsSpace(s[k])
        /\ w[1] = 1 \/ IsSpace(s[w[1] - 1])
        /\ w[2] = Len(s) \/ IsSpace(s[w[2] + 1])}

\* C16: the command line of a spawned child is the runtime executable followed
\* by the words of the configured command (of "python main.py" when none is
\* configured) from the second on, in their order and as they are.
C16_FirstTokenReplaced ==
    \A p \in Projects :
        running_processes[p] # NoHandle =>
            LET s == IF run_command[p].configured THEN run_command[p].text
                     ELSE <<"p", "y", "t", "h", "o", "n", " ", "m", "a", "i", "n", ".", "p", "y">>
                args == running_processes[p].args
                n == Cardinality(Words(s))
            IN  /\ args[1] = venv_python
                /\ Len(args) = IF n = 0 THEN 1 ELSE n
                /\ \A w \in Words(s) :
                      LET before == Cardinality({v \in Words(s) : v[1] < w[1]})
                      IN  before >= 1 => args[before + 1] = SubSeq(s, w[1], w[2])

C16_Witness ==
    \E p \in Projects :
        /\ run_command[p] = [configured |-> TRUE, text |-> <<"a", " ", "b", "\t", "a">>]
        /\ running_processes[p].args = <<venv_python, <<"b">>, <<"a">>>>

\* C17: stop_project removes the entry in the step in which it signals, so no
\* registered handle is ever signalled; of two stop_project calls issued
\* together on a live entry, the one that runs while the other is inside
\* stop_project with the popped handle finds no entry, returns "not running"
\* and signals nothing.
C17_OnlyOneStopActs ==
    [][/\ \A c, d \in Callers :
             (c # d /\ {c, d} \subseteq stops_together /\ StopStep(d)
                    /\ pc[c] \in {"stop_wait", "stop_await"})
                 => /\ result'[d] = "not_running"
                    /\ UNCHANGED <<running_processes, stopped, orphans>>
       /\ \A c \in Callers :
             (StopStep(c) /\ pc'[c] = "stop_wait")
                 => /\ running_processes'[proj[c]] = NoHandle
                    /\ stopped'[c] = [running_processes[proj[c]] EXCEPT !.termSent = TRUE]
       /\ \A p \in Projects :
             ~running_processes'[p].termSent /\ ~running_processes'[p].killSent]_vars

C17_Witness ==
    \E c, d \in Callers :
        /\ c # d /\ stops_together = {c, d}
        /\ pc[c] = "stop_await" /\ stopped[c].termSent
        /\ pc[d] \in {"idle", "sleep"} /\ result[d] = "not_running"

\* C18 (as claimed): while a stop_project call waits out the grace period for
\* its child, the operations of the other callers can run: a start_project
\* already called can take its step, a get_project_status of another project
\* can be served.
C18_OthersRunDuringGrace ==
    \A c, d \in Callers :
        (c # d /\ pc[c] = "stop_wait" /\ Alive(stopped[c]) /\ waited < GracePeriod)
            => /\ pc[d] = "start" => ENABLED StartCall(d)
               /\ pc[d] = "idle" =>
                     ENABLED GetStatus(d, OtherProject,
                                       [execution_info |-> TRUE, name |-> TRUE], FALSE)

\* C19 (as claimed): a start_project that returns success has written
\* is_running, its pid and "running"; a stop_project that removed an entry,
\* live or stale, and did not fail has written not running, no pid and
\* "stopped".
C19_RegistryChangeIsPersisted ==
    [][\A c \in Callers :
          LET p == proj[c]
          IN  /\ (pc[c] = "start_await" /\ pc'[c] = "idle" /\ result'[c] = "started")
                    => /\ persisted'[p].is_running
                       /\ persisted'[p].pid = update_pid[c]
                       /\ persisted'[p].status = "running"
              /\ (pc[c] \in {"stop", "stop_await"} /\ pc'[c] \in {"idle", "sleep"}
                       /\ result'[c] \in {"already_stopped", "stopped"})
                    => /\ ~persisted'[p].is_running
                       /\ persisted'[p].pid = NoPid
                       /\ persisted'[p].status = "stopped"]_vars

\* C20 (as claimed): when no call is under way, the persisted is_running says
\* whether the registry holds a live entry, and the persisted pid is its pid.
C20_QuiescentAgreement ==
    (\A c \in Callers : pc[c] = "idle")
        => \A p \in Projects :
              /\ persisted[p].is_running <=> Alive(running_processes[p])
              /\ Alive(running_processes[p]) => persisted[p].pid = running_processes[p].pid
====
